---- MODULE Spec2Model ----
(***************************************************************************)
(* coraza-fiber-lite: the process-wide WAF singleton (InitGlobalWAF*,      *)
(* sync.Once), the block-message setter, and the per-request Fiber         *)
(* middleware that drives one Coraza transaction through its phases.       *)
(* Source: src/corazalite.go.  The Coraza engine, the Fiber framework and  *)
(* the file system are external: their answers are nondeterministic        *)
(* choices made at the call that asks for them.                            *)
(***************************************************************************)
EXTENDS Integers, Sequences, FiniteSets, TLC

\* ------------------------------------------------------------------ bounds
\* concurrent requests served by the middleware
NumRequests == 2
\* threads that call InitGlobalWAF / InitGlobalWAFWithCfg
NumInitCalls == 2
\* longest request body, in bytes
MaxBodyLen == 2

Requests == 1..NumRequests
Callers == 1..NumInitCalls

\* ------------------------------------------------------- program constants
StatusForbidden == 403
StatusInternalServerError == 500

DefaultBlockMessage == "Request blocked by Web Application Firewall"
MsgInitFailed == "WAF initialization failed"
MsgNotInitialized == "WAF instance not initialized"
MsgConvertFailed == "Failed to convert request"
MsgProcessingFailed == "WAF request processing failed"

\* the nil interface value / nil pointer
Nil == "nil"

\* ------------------------------------------------------------ environment
\* Rule-source paths a configuration may list.  The file system decides which
\* exist (os.Stat), the engine decides which it accepts (coraza.NewWAF).
DefaultDirectivesFile == "./conf/coraza.conf"
BadDirectivesFile == "./conf/rejected.conf"
MissingDirectivesFile == "./conf/missing.conf"

FileExists(p) == p # MissingDirectivesFile
EngineAccepts(p) == p # BadDirectivesFile

\* CorazaCfg, reduced to the field that decides the control flow of
\* createWAFWithCfg (the other fields only select builder calls on wafConfig).
DefaultCorazaCfg == [DirectivesFile |-> <<DefaultDirectivesFile>>]

DirectiveLists ==
    { <<>>,
      <<DefaultDirectivesFile>>,
      <<BadDirectivesFile>>,
      <<MissingDirectivesFile>>,
      <<BadDirectivesFile, MissingDirectivesFile>> }

CorazaCfg == [DirectivesFile : DirectiveLists]

\* no configuration (a caller that is not inside a call)
NoCfg == [DirectivesFile |-> <<Nil>>]

\* arguments of InitWAFBlockMessage(msg ...string): the variadic slice
BlockMessageArgs == { <<>>, <<"">>, <<"Blocked by policy">>, <<"", "ignored">> }

\* ------------------------------------------------------------------ state
VARIABLES
    globalWAF,        \* coraza.WAF singleton: Nil or the handle built
    wafInitErr,       \* error recorded by the construction: Nil or an error
    wafOnce,          \* sync.Once: [done, m] (m = caller holding the mutex, 0 if free)
    wafBlockMessage,  \* message of the deny payload
    ini,              \* per caller of InitGlobalWAF*: [pc, cfg, waf, err]
    constructions,    \* history: one entry per run of createWAFWithCfg
    req,              \* per request: the middleware invocation's locals
    tr                \* a call of the status translator: [it, default, status]

vars == <<globalWAF, wafInitErr, wafOnce, wafBlockMessage, ini, constructions, req, tr>>

\* --------------------------------------------------------------- helpers
NilWAF == <<>>
\* the handle coraza.NewWAF builds from a configuration
WAFOf(cfg) == <<cfg>>

ErrInvalidDirectives == "coraza: invalid directives"

\* coraza.NewWAF(wafConfig): (waf, nil) or (nil, err)
NewWAF(cfg) ==
    IF \A i \in DOMAIN cfg.DirectivesFile : EngineAccepts(cfg.DirectivesFile[i])
    THEN [panic |-> FALSE, waf |-> WAFOf(cfg), err |-> Nil]
    ELSE [panic |-> FALSE, waf |-> NilWAF, err |-> ErrInvalidDirectives]

\* createWAFWithCfg: every listed file is stat'ed first and a missing one
\* panics; only then is the configuration assembled and handed to the engine.
createWAFWithCfg(cfg) ==
    IF \E i \in DOMAIN cfg.DirectivesFile : ~FileExists(cfg.DirectivesFile[i])
    THEN [panic |-> TRUE, waf |-> NilWAF, err |-> Nil]
    ELSE NewWAF(cfg)

ConstructionOutcome(res) ==
    IF res.panic THEN "panic" ELSE IF res.err # Nil THEN "error" ELSE "ok"

\* a Once that never sees done set
OnceNeverDone(o) == FALSE

\* sync.Once: the fast-path load of done
OnceDone(o) == o.done

\* a Once that stores done only when f returns normally
OnceOpenAfterPanic(o) == [done |-> FALSE, m |-> 0]

\* sync.Once: what doSlow leaves behind when f panics (defer o.done.Store(1),
\* defer o.m.Unlock())
OnceAfterPanic(o) == [done |-> TRUE, m |-> 0]

\* ------------------------------------------------------------- Init state
IdleCaller == [pc |-> "idle", cfg |-> NoCfg, waf |-> NilWAF, err |-> Nil]
\* a caller whose call returned, and one whose call panicked out of Once.Do
ReturnedCaller == [IdleCaller EXCEPT !.pc = "returned"]
PanickedCaller == [IdleCaller EXCEPT !.pc = "panicked"]

\* ------------------------------------------------ initialization (callers)
\* InitGlobalWAFWithCfg(cfg): enters wafOnce.Do
InitGlobalWAFWithCfg(c) ==
    /\ ini[c].pc = "idle"
    /\ \E cfg \in CorazaCfg :
         ini' = [ini EXCEPT ![c].pc = "do", ![c].cfg = cfg]
    /\ UNCHANGED <<globalWAF, wafInitErr, wafOnce, wafBlockMessage, constructions, req, tr>>

\* InitGlobalWAF(path...): the paths given, or the default configuration
InitGlobalWAF(c) ==
    /\ ini[c].pc = "idle"
    /\ \E path \in DirectiveLists :
         LET cfg == IF Len(path) > 0 THEN [DirectivesFile |-> path] ELSE DefaultCorazaCfg
         IN  ini' = [ini EXCEPT ![c].pc = "do", ![c].cfg = cfg]
    /\ UNCHANGED <<globalWAF, wafInitErr, wafOnce, wafBlockMessage, constructions, req, tr>>

\* Once.Do: done already set, return without taking the mutex
OnceFastPath(c) ==
    /\ ini[c].pc = "do"
    /\ ini' = [ini EXCEPT ![c] = IF OnceDone(wafOnce) THEN ReturnedCaller
                                  ELSE [@ EXCEPT !.pc = "lock"]]
    /\ UNCHANGED <<globalWAF, wafInitErr, wafOnce, wafBlockMessage, constructions, req, tr>>

\* Once.doSlow: take the mutex, look at done again
OnceLock(c) ==
    /\ ini[c].pc = "lock"
    /\ wafOnce.m = 0
    /\ IF OnceDone(wafOnce)
       THEN /\ ini' = [ini EXCEPT ![c] = ReturnedCaller]
            /\ UNCHANGED wafOnce
       ELSE /\ ini' = [ini EXCEPT ![c].pc = "create"]
            /\ wafOnce' = [wafOnce EXCEPT !.m = c]
    /\ UNCHANGED <<globalWAF, wafInitErr, wafBlockMessage, constructions, req, tr>>

\* the call createWAFWithCfg(cfg) inside the Once function
InitCreate(c) ==
    /\ ini[c].pc = "create"
    /\ LET res == createWAFWithCfg(ini[c].cfg) IN
         /\ constructions' = Append(constructions,
                [caller |-> c, cfg |-> ini[c].cfg, outcome |-> ConstructionOutcome(res)])
         /\ IF res.panic
            THEN /\ ini' = [ini EXCEPT ![c] = PanickedCaller]
                 /\ wafOnce' = OnceAfterPanic(wafOnce)
            ELSE /\ ini' = [ini EXCEPT ![c].pc = "storeWAF", ![c].waf = res.waf,
                                       ![c].err = res.err]
                 /\ UNCHANGED wafOnce
    /\ UNCHANGED <<globalWAF, wafInitErr, wafBlockMessage, req, tr>>

\* globalWAF, wafInitErr = ... : the store to globalWAF
InitStoreWAF(c) ==
    /\ ini[c].pc = "storeWAF"
    /\ globalWAF' = ini[c].waf
    /\ ini' = [ini EXCEPT ![c].pc = "storeErr"]
    /\ UNCHANGED <<wafInitErr, wafOnce, wafBlockMessage, constructions, req, tr>>

\* globalWAF, wafInitErr = ... : the store to wafInitErr
InitStoreErr(c) ==
    /\ ini[c].pc = "storeErr"
    /\ wafInitErr' = ini[c].err
    /\ ini' = [ini EXCEPT ![c].pc = "finish"]
    /\ UNCHANGED <<globalWAF, wafOnce, wafBlockMessage, constructions, req, tr>>

\* the error is logged, the Once function returns: done is stored, the mutex
\* released
InitFinish(c) ==
    /\ ini[c].pc = "finish"
    /\ wafOnce' = [done |-> TRUE, m |-> 0]
    /\ ini' = [ini EXCEPT ![c] = ReturnedCaller]
    /\ UNCHANGED <<globalWAF, wafInitErr, wafBlockMessage, constructions, req, tr>>

\* the setter without the test for an empty string
InitWAFBlockMessageTakesEmpty ==
    /\ \E msg \in BlockMessageArgs :
         wafBlockMessage' = IF Len(msg) > 0 THEN msg[1] ELSE wafBlockMessage
    /\ UNCHANGED <<globalWAF, wafInitErr, wafOnce, ini, constructions, req, tr>>

\* InitWAFBlockMessage(msg...)
InitWAFBlockMessage ==
    /\ \E msg \in BlockMessageArgs :
         wafBlockMessage' = IF Len(msg) > 0 /\ msg[1] # "" THEN msg[1] ELSE wafBlockMessage
    /\ UNCHANGED <<globalWAF, wafInitErr, wafOnce, ini, constructions, req, tr>>

\* ------------------------------------------------------ requests, engine
\* types.Interruption values the engine may issue
Interruptions == [Action : {"deny", "drop"}, Status : {0, 429}]
NoInterruption == <<>>

ErrEngine == "coraza: engine error"
ErrConvert == "adaptor: conversion error"

\* one call on the engine's Transaction: what was called, with which
\* arguments, and what it gave back
Call(op, arg) ==
    [op |-> op, arg |-> arg, val |-> FALSE, it |-> NoInterruption, err |-> Nil,
     panic |-> FALSE]
Returning(call, val) == [call EXCEPT !.val = val]
Yielding(call, it, err) == [call EXCEPT !.it = it, !.err = err]
Panicking(call) == [call EXCEPT !.panic = TRUE]

\* request bodies: http.Request.Body is nil, http.NoBody, or a stream
Bytes == {"a", "b"}
Bodies == UNION { [1..n -> Bytes] : n \in 0..MaxBodyLen }
NilBody == [kind |-> "nil", pre |-> <<>>, data |-> <<>>, pos |-> 0]
NoBody == [kind |-> "NoBody", pre |-> <<>>, data |-> <<>>, pos |-> 0]
\* a stream over data, pos bytes of it already read; pre are the bytes of a
\* reader chained in front of it
Stream(data) == [kind |-> "stream", pre |-> <<>>, data |-> data, pos |-> 0]
Unread(body) == SubSeq(body.data, body.pos + 1, Len(body.data))
\* what reading the stream to its end yields
ReadAll(body) == body.pre \o Unread(body)
\* the stream after n more bytes were read from it
Advance(body, n) == [body EXCEPT !.pos = @ + n]

\* the engine's reader alone, the rest of the original stream dropped
MultiReaderDropsRest(rbr, body) == [body EXCEPT !.pre = rbr \o @, !.pos = Len(body.data)]

\* io.NopCloser(io.MultiReader(rbr, req.Body))
MultiReader(rbr, body) == [body EXCEPT !.pre = rbr \o @]

\* http.Header: key -> values, kept here as a list of <<key, values>> with
\* distinct keys; ranging over the map visits the keys in any order
HeaderMaps ==
    { <<>>,
      << <<"Accept", <<"text/html", "text/plain">> >> >>,
      << <<"Accept", <<"text/html">> >>, <<"Cookie", <<"k=v">> >> >> }
KeyOrders(h) ==
    { o \in [1..Len(h) -> 1..Len(h)] : \A i, j \in 1..Len(h) : o[i] = o[j] => i = j }

NativeHosts == {"", "example.com"}
FiberHostnames == {"", "fiber.local"}
\* req.TransferEncoding: nil (written <<>>) or a non-empty list
TransferEncodings == { <<>>, <<"chunked">> }

\* the native requests adaptor.ConvertRequest may be given: fail says that
\* the conversion returns an error
NativeRequests ==
    [fail : BOOLEAN, Host : NativeHosts, Hostname : FiberHostnames,
     TransferEncoding : TransferEncodings, Header : HeaderMaps,
     Body : {NilBody, NoBody} \cup { Stream(b) : b \in Bodies }]

\* convertFasthttpToStdRequest: the *http.Request, or an error
convertFasthttpToStdRequest(n) ==
    IF n.fail
    THEN [err |-> ErrConvert, Host |-> "", TransferEncoding |-> <<>>, Header |-> <<>>,
          Body |-> NilBody]
    ELSE [err |-> Nil,
          Host |-> IF n.Host = "" THEN n.Hostname ELSE n.Host,
          TransferEncoding |-> n.TransferEncoding,
          Header |-> n.Header,
          Body |-> n.Body]

\* the translator, were a deny without status to take the default
obtainStatusDenyTakesDefault(it, defaultStatusCode) ==
    IF it.Action = "deny" /\ it.Status # 0 THEN it.Status ELSE defaultStatusCode

\* obtainStatusCodeFromInterruptionOrDefault
obtainStatusCodeFromInterruptionOrDefault(it, defaultStatusCode) ==
    IF it.Action = "deny"
    THEN IF it.Status # 0 THEN it.Status ELSE StatusForbidden
    ELSE defaultStatusCode

\* c.Status(status).JSON(fiber.Map{"code": 0, "msg": msg})
JSON(status, msg) ==
    [status |-> status, payload |-> << [code |-> 0, msg |-> msg] >>, blocked |-> FALSE]
\* the response nobody has written to: fasthttp's 200 with an empty body
NoResponse == [status |-> 200, payload |-> <<>>, blocked |-> FALSE]

NewRequest ==
    [pc |-> "start",
     Host |-> "", TransferEncoding |-> <<>>, Header |-> <<>>,   \* stdReq
     Body |-> NilBody,                                          \* stdReq.Body
     orig |-> <<>>,        \* history: the bytes of the body as it arrived
     tx |-> NilWAF,        \* the Transaction: the handle it was created from
     hasTx |-> FALSE,
     id |-> 0,             \* the Transaction: which of the engine's Transactions
     buf |-> <<>>,         \* the Transaction's request body buffer
     calls |-> <<>>,       \* history: the calls made on the Transaction
     it |-> NoInterruption, err |-> Nil,   \* result of processRequest
     panicking |-> FALSE,  \* a panic is unwinding the handler
     recovered |-> FALSE,  \* history: the deferred function recovered a panic
     resp |-> NoResponse,
     nexts |-> 0,          \* history: calls of c.Next()
     failureAtStart |-> "none",  \* history: InitFailure when line 138 ran
     published |-> FALSE]        \* history: HandlePublished when line 145 ran

\* ---------------------------------------------------------- history views
Globals == <<globalWAF, wafInitErr, wafOnce, wafBlockMessage, ini, constructions, tr>>

Ops(r) == [i \in DOMAIN req[r].calls |-> req[r].calls[i].op]
Called(r, op) == \E i \in DOMAIN req[r].calls : req[r].calls[i].op = op
Count(r, op) == Cardinality({ i \in DOMAIN req[r].calls : req[r].calls[i].op = op })

\* the construction has returned a handle without error and line 115 has
\* stored it
HandlePublished ==
    \E i \in DOMAIN constructions :
        /\ constructions[i].outcome = "ok"
        /\ ini[constructions[i].caller].pc \in {"storeErr", "finish", "returned"}

\* the permanent failure the initialization has ended in, if any: "failed"
\* (the engine's error is recorded in wafInitErr), "aborted" (createWAFWithCfg
\* panicked on a missing file), else "none"
InitFailure ==
    IF constructions = <<>> THEN "none"
    ELSE LET first == constructions[1] IN
         IF first.outcome = "panic" THEN "aborted"
         ELSE IF first.outcome = "error"
                 /\ ini[first.caller].pc \notin {"storeWAF", "storeErr"}
              THEN "failed"
              ELSE "none"

\* ------------------------------------------------- CorazaMiddleware handler
\* the handler leaves through its deferred function (a Transaction exists)
Unwind(rec) == [rec EXCEPT !.pc = "deferred"]
\* a call on the Transaction panics
Panic(rec, call) ==
    [rec EXCEPT !.pc = "deferred", !.panicking = TRUE,
                !.calls = Append(@, Panicking(call))]
Logged(rec, call) == [rec EXCEPT !.calls = Append(@, call)]

\* the handler without the wafInitErr check
MwCheckInitErrSkipped(r) ==
    /\ req[r].pc = "start"
    /\ req' = [req EXCEPT ![r] =
                 [@ EXCEPT !.pc = "checkInstance", !.failureAtStart = InitFailure]]
    /\ UNCHANGED Globals

\* if wafInitErr != nil { return 500 "WAF initialization failed" }
MwCheckInitErr(r) ==
    /\ req[r].pc = "start"
    /\ req' = [req EXCEPT ![r] =
         IF wafInitErr # Nil
         THEN [@ EXCEPT !.pc = "done", !.failureAtStart = InitFailure,
                        !.resp = JSON(StatusInternalServerError, MsgInitFailed)]
         ELSE [@ EXCEPT !.pc = "checkInstance", !.failureAtStart = InitFailure]]
    /\ UNCHANGED Globals

\* the handler without the globalWAF nil check
MwCheckInstanceSkipped(r) ==
    /\ req[r].pc = "checkInstance"
    /\ req' = [req EXCEPT ![r] = [@ EXCEPT !.pc = "convert", !.published = HandlePublished]]
    /\ UNCHANGED Globals

\* if globalWAF == nil { return 500 "WAF instance not initialized" }
MwCheckInstance(r) ==
    /\ req[r].pc = "checkInstance"
    /\ req' = [req EXCEPT ![r] =
         IF globalWAF = NilWAF
         THEN [@ EXCEPT !.pc = "done", !.published = HandlePublished,
                        !.resp = JSON(StatusInternalServerError, MsgNotInitialized)]
         ELSE [@ EXCEPT !.pc = "convert", !.published = HandlePublished]]
    /\ UNCHANGED Globals

\* globalWAF.NewTransaction(): the engine hands out a Transaction it has not
\* handed out before, here the next in the order of their creation
NewTransaction == 1 + Cardinality({ q \in Requests : req[q].hasTx })

\* the handler, were the Transaction created before the conversion's error is
\* looked at
MwConvertThenTX(r, natives) ==
    /\ req[r].pc = "convert"
    /\ \E n \in natives :
         LET stdReq == convertFasthttpToStdRequest(n) IN
         req' = [req EXCEPT ![r] =
           IF stdReq.err # Nil
           THEN [@ EXCEPT !.pc = "deferred", !.err = stdReq.err,
                          !.tx = globalWAF, !.hasTx = TRUE, !.id = NewTransaction,
                          !.resp = JSON(StatusInternalServerError, MsgConvertFailed)]
           ELSE [@ EXCEPT !.pc = "newTX", !.Host = stdReq.Host,
                          !.TransferEncoding = stdReq.TransferEncoding,
                          !.Header = stdReq.Header, !.Body = stdReq.Body,
                          !.orig = ReadAll(stdReq.Body)]]
    /\ UNCHANGED Globals

\* stdReq, err := convertFasthttpToStdRequest(c)
MwConvert(r, natives) ==
    /\ req[r].pc = "convert"
    /\ \E n \in natives :
         LET stdReq == convertFasthttpToStdRequest(n) IN
         req' = [req EXCEPT ![r] =
           IF stdReq.err # Nil
           THEN [@ EXCEPT !.pc = "done", !.err = stdReq.err,
                          !.resp = JSON(StatusInternalServerError, MsgConvertFailed)]
           ELSE [@ EXCEPT !.pc = "newTX", !.Host = stdReq.Host,
                          !.TransferEncoding = stdReq.TransferEncoding,
                          !.Header = stdReq.Header, !.Body = stdReq.Body,
                          !.orig = ReadAll(stdReq.Body)]]
    /\ UNCHANGED Globals

\* the handler, were the Transaction kept in one place shared by all requests
MwNewTXShared(r) ==
    /\ req[r].pc = "newTX"
    /\ req' = [req EXCEPT ![r].pc = "ruleEngineOff", ![r].tx = globalWAF,
                          ![r].hasTx = TRUE, ![r].id = 1]
    /\ UNCHANGED Globals

\* tx := newTX(stdReq); defer func() {...}(): tx is a local of this invocation
MwNewTX(r) ==
    /\ req[r].pc = "newTX"
    /\ req' = [req EXCEPT ![r].pc = "ruleEngineOff", ![r].tx = globalWAF,
                          ![r].hasTx = TRUE, ![r].id = NewTransaction]
    /\ UNCHANGED Globals

\* the handler, were the answer of IsRuleEngineOff not looked at
MwIsRuleEngineOffIgnored(r) ==
    /\ req[r].pc = "ruleEngineOff"
    /\ LET call == Call("IsRuleEngineOff", <<>>) IN
       \/ \E off \in BOOLEAN :
            req' = [req EXCEPT ![r] =
                     [Logged(@, Returning(call, off)) EXCEPT !.pc = "connection"]]
       \/ req' = [req EXCEPT ![r] = Panic(@, call)]
    /\ UNCHANGED Globals

\* if tx.IsRuleEngineOff() { return c.Next() }
MwIsRuleEngineOff(r) ==
    /\ req[r].pc = "ruleEngineOff"
    /\ LET call == Call("IsRuleEngineOff", <<>>) IN
       \/ req' = [req EXCEPT ![r] = [Logged(@, Returning(call, TRUE)) EXCEPT !.pc = "next"]]
       \/ req' = [req EXCEPT ![r] =
                   [Logged(@, Returning(call, FALSE)) EXCEPT !.pc = "connection"]]
       \/ req' = [req EXCEPT ![r] = Panic(@, call)]
    /\ UNCHANGED Globals

\* ------------------------------------------------------------ processRequest
\* the optional results an engine call may give back
MaybeInterruption == {NoInterruption} \cup { <<i>> : i \in Interruptions }
MaybeError == {Nil, ErrEngine}

\* processRequest returns (it, err) to the handler
Return(rec, it, err) == [rec EXCEPT !.pc = "respond", !.it = it, !.err = err]

\* processRequest, were lines 226 and 227 the other way round
PrProcessURIFirst(r) ==
    /\ req[r].pc = "connection"
    /\ LET uri == Call("ProcessURI", <<>>)
           conn == Call("ProcessConnection", <<>>) IN
       \/ req' = [req EXCEPT ![r] = [Logged(Logged(@, uri), conn) EXCEPT !.pc = "headers"]]
       \/ req' = [req EXCEPT ![r] = Panic(@, uri)]
       \/ req' = [req EXCEPT ![r] = Panic(Logged(@, uri), conn)]
    /\ UNCHANGED Globals

\* tx.ProcessConnection(client, cport, "", 0); the address arguments are not
\* tracked
PrProcessConnection(r) ==
    /\ req[r].pc = "connection"
    /\ LET call == Call("ProcessConnection", <<>>) IN
       \/ req' = [req EXCEPT ![r] = [Logged(@, call) EXCEPT !.pc = "uri"]]
       \/ req' = [req EXCEPT ![r] = Panic(@, call)]
    /\ UNCHANGED Globals

\* tx.ProcessURI(req.URL.String(), req.Method, req.Proto)
PrProcessURI(r) ==
    /\ req[r].pc = "uri"
    /\ LET call == Call("ProcessURI", <<>>) IN
       \/ req' = [req EXCEPT ![r] = [Logged(@, call) EXCEPT !.pc = "headers"]]
       \/ req' = [req EXCEPT ![r] = Panic(@, call)]
    /\ UNCHANGED Globals

\* the feeding of one key, were only its first value passed on
ValueCallsFirstOnly(kv) ==
    [j \in 1..(IF Len(kv[2]) > 0 THEN 1 ELSE 0) |-> Call("AddRequestHeader", <<kv[1], kv[2][j]>>)]

\* the AddRequestHeader calls of one key: for _, v := range vr
ValueCalls(kv) == [j \in 1..Len(kv[2]) |-> Call("AddRequestHeader", <<kv[1], kv[2][j]>>)]

\* for k, vr := range req.Header, the keys visited in the given order
RECURSIVE FeedHeaders(_, _)
FeedHeaders(h, order) ==
    IF order = <<>> THEN <<>>
    ELSE ValueCalls(h[Head(order)]) \o FeedHeaders(h, Tail(order))

\* if req.Host != "" { AddRequestHeader("Host", ...); SetServerName(...) }
FeedHost(host) ==
    IF host # ""
    THEN << Call("AddRequestHeader", <<"Host", host>>), Call("SetServerName", <<host>>) >>
    ELSE <<>>

\* if req.TransferEncoding != nil { AddRequestHeader("Transfer-Encoding", [0]) }
FeedTransferEncoding(te) ==
    IF te # <<>>
    THEN << Call("AddRequestHeader", <<"Transfer-Encoding", te[1]>>) >>
    ELSE <<>>

\* lines 229-242: every header, then Host, then Transfer-Encoding
PrAddRequestHeaders(r) ==
    /\ req[r].pc = "headers"
    /\ \E order \in KeyOrders(req[r].Header) :
         LET feed == FeedHeaders(req[r].Header, order) \o FeedHost(req[r].Host)
                        \o FeedTransferEncoding(req[r].TransferEncoding)
         IN  \/ req' = [req EXCEPT ![r].pc = "processHeaders", ![r].calls = @ \o feed]
             \/ \E j \in 1..Len(feed) :
                  req' = [req EXCEPT ![r] =
                           Panic([@ EXCEPT !.calls = @ \o SubSeq(feed, 1, j - 1)], feed[j])]
    /\ UNCHANGED Globals

\* the header phase, were its interruption dropped and the body phase entered
PrProcessRequestHeadersGoesOn(r) ==
    /\ req[r].pc = "processHeaders"
    /\ LET call == Call("ProcessRequestHeaders", <<>>) IN
       \/ \E in \in MaybeInterruption :
            req' = [req EXCEPT ![r] =
              [Logged(@, Yielding(call, in, Nil)) EXCEPT !.pc = "bodyAccessible"]]
       \/ req' = [req EXCEPT ![r] = Panic(@, call)]
    /\ UNCHANGED Globals

\* if in := tx.ProcessRequestHeaders(); in != nil { return in, nil }
PrProcessRequestHeaders(r) ==
    /\ req[r].pc = "processHeaders"
    /\ LET call == Call("ProcessRequestHeaders", <<>>) IN
       \/ \E in \in MaybeInterruption :
            req' = [req EXCEPT ![r] =
              IF in # NoInterruption
              THEN Return(Logged(@, Yielding(call, in, Nil)), in, Nil)
              ELSE [Logged(@, call) EXCEPT !.pc = "bodyAccessible"]]
       \/ req' = [req EXCEPT ![r] = Panic(@, call)]
    /\ UNCHANGED Globals

\* processRequest, were the body stream not looked at before it is read
PrIsRequestBodyAccessibleAnyBody(r) ==
    /\ req[r].pc = "bodyAccessible"
    /\ LET call == Call("IsRequestBodyAccessible", <<>>) IN
       \/ \E accessible \in BOOLEAN :
            req' = [req EXCEPT ![r] =
              [Logged(@, Returning(call, accessible)) EXCEPT !.pc =
                 IF accessible THEN "readBody" ELSE "processBody"]]
       \/ req' = [req EXCEPT ![r] = Panic(@, call)]
    /\ UNCHANGED Globals

\* if tx.IsRequestBodyAccessible() && req.Body != nil && req.Body != http.NoBody
PrIsRequestBodyAccessible(r) ==
    /\ req[r].pc = "bodyAccessible"
    /\ LET call == Call("IsRequestBodyAccessible", <<>>) IN
       \/ \E accessible \in BOOLEAN :
            req' = [req EXCEPT ![r] =
              [Logged(@, Returning(call, accessible)) EXCEPT !.pc =
                 IF accessible /\ req[r].Body.kind # "nil" /\ req[r].Body.kind # "NoBody"
                 THEN "readBody" ELSE "processBody"]]
       \/ req' = [req EXCEPT ![r] = Panic(@, call)]
    /\ UNCHANGED Globals

\* processRequest, were the interruption of the ingestion call not returned
PrReadRequestBodyFromGoesOn(r) ==
    /\ req[r].pc = "readBody"
    /\ \E n \in 0..Len(Unread(req[r].Body)) :
         LET call == Call("ReadRequestBodyFrom", <<>>)
             read == [req[r] EXCEPT !.Body = Advance(@, n),
                                    !.buf = @ \o SubSeq(Unread(req[r].Body), 1, n)]
         IN  \/ \E it \in MaybeInterruption, err \in MaybeError :
                  req' = [req EXCEPT ![r] =
                    IF err # Nil THEN Return(Logged(read, Yielding(call, it, err)), NoInterruption, err)
                    ELSE [Logged(read, Yielding(call, it, err)) EXCEPT !.pc = "bodyReader"]]
             \/ req' = [req EXCEPT ![r] = Panic(read, call)]
    /\ UNCHANGED Globals

\* it, _, err := tx.ReadRequestBodyFrom(req.Body): the engine reads n bytes of
\* the stream into its buffer
PrReadRequestBodyFrom(r) ==
    /\ req[r].pc = "readBody"
    /\ \E n \in 0..Len(Unread(req[r].Body)) :
         LET call == Call("ReadRequestBodyFrom", <<>>)
             read == [req[r] EXCEPT !.Body = Advance(@, n),
                                    !.buf = @ \o SubSeq(Unread(req[r].Body), 1, n)]
         IN  \/ \E it \in MaybeInterruption, err \in MaybeError :
                  req' = [req EXCEPT ![r] =
                    IF err # Nil THEN Return(Logged(read, Yielding(call, it, err)), NoInterruption, err)
                    ELSE IF it # NoInterruption
                         THEN Return(Logged(read, Yielding(call, it, err)), it, Nil)
                         ELSE [Logged(read, call) EXCEPT !.pc = "bodyReader"]]
             \/ req' = [req EXCEPT ![r] = Panic(read, call)]
    /\ UNCHANGED Globals

\* rbr, _ := tx.RequestBodyReader(); req.Body = NopCloser(MultiReader(rbr, req.Body))
PrRequestBodyReader(r) ==
    /\ req[r].pc = "bodyReader"
    /\ LET call == Call("RequestBodyReader", <<>>) IN
       \/ req' = [req EXCEPT ![r] =
                   [Logged(@, call) EXCEPT !.pc = "processBody",
                                           !.Body = MultiReader(req[r].buf, @)]]
       \/ req' = [req EXCEPT ![r] = Panic(@, call)]
    /\ UNCHANGED Globals

\* return tx.ProcessRequestBody()
PrProcessRequestBody(r) ==
    /\ req[r].pc = "processBody"
    /\ LET call == Call("ProcessRequestBody", <<>>) IN
       \/ \E it \in MaybeInterruption, err \in MaybeError :
            req' = [req EXCEPT ![r] = Return(Logged(@, Yielding(call, it, err)), it, err)]
       \/ req' = [req EXCEPT ![r] = Panic(@, call)]
    /\ UNCHANGED Globals

\* ------------------------------------------- the handler after processRequest
\* the handler, were the deny payload to carry the built-in message
MwRespondBuiltinMessage(r) ==
    /\ req[r].pc = "respond"
    /\ req' = [req EXCEPT ![r] =
         IF req[r].err # Nil
         THEN [Unwind(@) EXCEPT
                 !.resp = JSON(StatusInternalServerError, MsgProcessingFailed)]
         ELSE IF req[r].it # NoInterruption
         THEN LET status == obtainStatusCodeFromInterruptionOrDefault(
                                req[r].it[1], StatusForbidden)
              IN  [Unwind(@) EXCEPT
                     !.resp = [JSON(status, DefaultBlockMessage) EXCEPT !.blocked = TRUE]]
         ELSE [@ EXCEPT !.pc = "next"]]
    /\ UNCHANGED Globals

\* the handler, were the deny answer written without returning
MwRespondDenyPassesOn(r) ==
    /\ req[r].pc = "respond"
    /\ req' = [req EXCEPT ![r] =
         IF req[r].err # Nil
         THEN [Unwind(@) EXCEPT
                 !.resp = JSON(StatusInternalServerError, MsgProcessingFailed)]
         ELSE IF req[r].it # NoInterruption
         THEN LET status == obtainStatusCodeFromInterruptionOrDefault(
                                req[r].it[1], StatusForbidden)
              IN  [@ EXCEPT !.pc = "next",
                     !.resp = [JSON(status, wafBlockMessage) EXCEPT !.blocked = TRUE]]
         ELSE [@ EXCEPT !.pc = "next"]]
    /\ UNCHANGED Globals

\* the handler, were an error of processRequest dropped
MwRespondErrorPassesOn(r) ==
    /\ req[r].pc = "respond"
    /\ req' = [req EXCEPT ![r] =
         IF req[r].it # NoInterruption
         THEN LET status == obtainStatusCodeFromInterruptionOrDefault(
                                req[r].it[1], StatusForbidden)
              IN  [Unwind(@) EXCEPT
                     !.resp = [JSON(status, wafBlockMessage) EXCEPT !.blocked = TRUE]]
         ELSE [@ EXCEPT !.pc = "next"]]
    /\ UNCHANGED Globals

\* lines 185-197: the error answer, the deny answer, or on to c.Next()
MwRespond(r) ==
    /\ req[r].pc = "respond"
    /\ req' = [req EXCEPT ![r] =
         IF req[r].err # Nil
         THEN [Unwind(@) EXCEPT
                 !.resp = JSON(StatusInternalServerError, MsgProcessingFailed)]
         ELSE IF req[r].it # NoInterruption
         THEN LET status == obtainStatusCodeFromInterruptionOrDefault(
                                req[r].it[1], StatusForbidden)
              IN  [Unwind(@) EXCEPT
                     !.resp = [JSON(status, wafBlockMessage) EXCEPT !.blocked = TRUE]]
         ELSE [@ EXCEPT !.pc = "next"]]
    /\ UNCHANGED Globals

\* return c.Next(): the downstream handlers run, and may panic
MwNext(r) ==
    /\ req[r].pc = "next"
    /\ \E panics \in BOOLEAN :
         req' = [req EXCEPT ![r] =
                  [Unwind(@) EXCEPT !.nexts = @ + 1, !.panicking = panics]]
    /\ UNCHANGED Globals

\* the deferred function, were lines 177 and 178 the other way round
MwDeferredCloseFirst(r) ==
    /\ req[r].pc = "deferred"
    /\ req' = [req EXCEPT ![r].pc = "done",
                          ![r].recovered = req[r].panicking,
                          ![r].panicking = FALSE,
                          ![r].calls = @ \o << Call("Close", <<>>),
                                               Call("ProcessLogging", <<>>) >>]
    /\ UNCHANGED Globals

\* the deferred function, were it to return right after logging a recovered
\* panic, leaving the Transaction open
MwDeferredLeaksOnPanic(r) ==
    /\ req[r].pc = "deferred"
    /\ req' = [req EXCEPT ![r].pc = "done",
                          ![r].recovered = req[r].panicking,
                          ![r].panicking = FALSE,
                          ![r].calls = IF req[r].panicking THEN @
                                       ELSE @ \o << Call("ProcessLogging", <<>>),
                                                    Call("Close", <<>>) >>]
    /\ UNCHANGED Globals

\* the deferred function: recover(), tx.ProcessLogging(), tx.Close().  A
\* recovered panic makes the handler return its zero result: a nil error, with
\* the response as it was.
MwDeferred(r) ==
    /\ req[r].pc = "deferred"
    /\ req' = [req EXCEPT ![r].pc = "done",
                          ![r].recovered = req[r].panicking,
                          ![r].panicking = FALSE,
                          ![r].calls = @ \o << Call("ProcessLogging", <<>>),
                                               Call("Close", <<>>) >>]
    /\ UNCHANGED Globals

\* ------------------------------------------------------------ specification
NoTranslation == [it |-> [Action |-> "", Status |-> 0], default |-> 0, status |-> 0,
                  done |-> FALSE]

Init ==
    /\ globalWAF = NilWAF
    /\ wafInitErr = Nil
    /\ wafOnce = [done |-> FALSE, m |-> 0]
    /\ wafBlockMessage = DefaultBlockMessage
    /\ ini = [c \in Callers |-> IdleCaller]
    /\ constructions = <<>>
    /\ req = [r \in Requests |-> NewRequest]
    /\ tr = NoTranslation

\* a call obtainStatusCodeFromInterruptionOrDefault(it, defaultStatusCode)
Translate ==
    /\ ~tr.done
    /\ tr' = [tr EXCEPT !.done = TRUE,
                        !.status = obtainStatusCodeFromInterruptionOrDefault(tr.it, tr.default)]
    /\ UNCHANGED <<globalWAF, wafInitErr, wafOnce, wafBlockMessage, ini, constructions, req>>

Initialize(c) ==
    \/ InitGlobalWAFWithCfg(c)
    \/ InitGlobalWAF(c)
    \/ OnceFastPath(c)
    \/ OnceLock(c)
    \/ InitCreate(c)
    \/ InitStoreWAF(c)
    \/ InitStoreErr(c)
    \/ InitFinish(c)

Serve(r, natives) ==
    \/ MwCheckInitErr(r)
    \/ MwCheckInstance(r)
    \/ MwConvert(r, natives)
    \/ MwNewTX(r)
    \/ MwIsRuleEngineOff(r)
    \/ PrProcessConnection(r)
    \/ PrProcessURI(r)
    \/ PrAddRequestHeaders(r)
    \/ PrProcessRequestHeaders(r)
    \/ PrIsRequestBodyAccessible(r)
    \/ PrReadRequestBodyFrom(r)
    \/ PrRequestBodyReader(r)
    \/ PrProcessRequestBody(r)
    \/ MwRespond(r)
    \/ MwNext(r)
    \/ MwDeferred(r)

\* the requests of the initialization runs: no headers, a fixed host, no
\* body or a body of MaxBodyLen bytes
BasicRequests ==
    { n \in NativeRequests :
        /\ n.Host = "example.com" /\ n.Hostname = ""
        /\ n.TransferEncoding = <<>> /\ n.Header = <<>>
        /\ n.Body \in {NilBody, Stream([i \in 1..MaxBodyLen |-> "a"])} }

\* one initializing thread and one request, over every native request, with
\* the block message set at any time
Next ==
    \/ Initialize(1)
    \/ InitWAFBlockMessage
    \/ Serve(1, NativeRequests)

Spec == Init /\ [][Next]_vars

\* NumInitCalls initializing threads racing each other and a request
NextInit ==
    \/ \E c \in Callers : Initialize(c)
    \/ Serve(1, BasicRequests)

SpecInit == Init /\ [][NextInit]_vars

\* one initializing thread and NumRequests requests served concurrently, in
\* any interleaving of their steps
NextRequests ==
    \/ Initialize(1)
    \/ \E r \in Requests : Serve(r, BasicRequests)

SpecRequests == Init /\ [][NextRequests]_vars

\* the status translator on its own, over every interruption and default
TranslatorInputs ==
    [it : [Action : {"deny", "drop", "redirect", "pass"},
           Status : {0, 302, 403, 429, 500}],
     default : {200, 403, 404, 503}, status : {0}, done : {FALSE}]

InitTranslate ==
    /\ globalWAF = NilWAF
    /\ wafInitErr = Nil
    /\ wafOnce = [done |-> FALSE, m |-> 0]
    /\ wafBlockMessage = DefaultBlockMessage
    /\ ini = [c \in Callers |-> IdleCaller]
    /\ constructions = <<>>
    /\ req = [r \in Requests |-> NewRequest]
    /\ tr \in TranslatorInputs

SpecTranslate == InitTranslate /\ [][Translate]_vars

\* ================================================================== claims
Done(r) == req[r].pc = "done"

\* the calls processRequest makes on the Transaction
PhaseOps ==
    {"ProcessConnection", "ProcessURI", "AddRequestHeader", "SetServerName",
     "ProcessRequestHeaders", "IsRequestBodyAccessible", "ReadRequestBodyFrom",
     "RequestBodyReader", "ProcessRequestBody"}

\* a call of processRequest panicked
PhaseFault(r) ==
    \E i \in DOMAIN req[r].calls :
        req[r].calls[i].panic /\ req[r].calls[i].op \in PhaseOps

\* the release sequence ran exactly once, as the last two calls on the
\* Transaction: ProcessLogging, then Close
ReleasedOnce(r) ==
    /\ Count(r, "ProcessLogging") = 1
    /\ Count(r, "Close") = 1
    /\ Len(req[r].calls) >= 2
    /\ req[r].calls[Len(req[r].calls) - 1].op = "ProcessLogging"
    /\ req[r].calls[Len(req[r].calls)].op = "Close"

NeverReleased(r) == Count(r, "ProcessLogging") = 0 /\ Count(r, "Close") = 0

\* how the request ended
Outcome(r) ==
    IF ~req[r].hasTx
    THEN IF req[r].err = ErrConvert THEN "conversion error" ELSE "precondition"
    ELSE IF req[r].recovered THEN "fault"
    ELSE IF req[r].err # Nil THEN "engine error"
    ELSE IF req[r].it # NoInterruption THEN "interruption"
    ELSE "allow"

\* C1: a panic in a phase of processRequest is caught by the handler, the
\* Transaction is released, the downstream handler is not invoked and the
\* request is answered 500 with a {code, msg} payload.
C1_FaultAnswered500 ==
    \A r \in Requests :
        Done(r) /\ PhaseFault(r) =>
            /\ ReleasedOnce(r)
            /\ req[r].nexts = 0
            /\ req[r].resp.status = StatusInternalServerError
            /\ Len(req[r].resp.payload) = 1

\* C2 as stated: whatever the terminal outcome of a request (allow,
\* interruption, conversion error, fault), the release sequence runs exactly
\* once.
C2_ReleasedOnceEveryOutcome ==
    \A r \in Requests :
        Done(r) /\ Outcome(r) \in {"allow", "interruption", "conversion error", "fault"}
            => ReleasedOnce(r)

\* C2 amended: for every request for which a Transaction was created, whatever
\* its terminal outcome, ProcessLogging followed by Close runs exactly once
\* and never twice; a request that ends in a conversion error (or on a failed
\* precondition) has no Transaction and the release sequence runs zero times.
C2_ReleasedOncePerTransaction ==
    \A r \in Requests :
        /\ Count(r, "ProcessLogging") <= 1
        /\ Count(r, "Close") <= 1
        /\ Done(r) => IF req[r].hasTx THEN ReleasedOnce(r) ELSE NeverReleased(r)

C2_Witness ==
    \E r \in Requests : Done(r) /\ Outcome(r) = "fault" /\ PhaseFault(r) /\ ReleasedOnce(r)

\* the request was allowed: control is passed to the downstream handler
Allowed(r) == req[r].pc = "next" \/ req[r].nexts > 0

\* C3: when inspection allows a request whose body is B, the body stream on
\* the request after the pipeline (the engine's retained copy, then the unread
\* rest of the original stream) reads exactly B, whether the engine read all
\* of B, a prefix of it or nothing.
C3_BodyReplay ==
    \A r \in Requests : Allowed(r) => ReadAll(req[r].Body) = req[r].orig

\* allowed after the engine read a proper, non-empty prefix of the body
C3_Witness ==
    \E r \in Requests :
        /\ Done(r) /\ req[r].nexts = 1
        /\ Called(r, "RequestBodyReader")
        /\ 0 < req[r].Body.pos /\ req[r].Body.pos < Len(req[r].Body.data)

\* the header phase returned an Interruption
HeaderInterrupted(r) ==
    \E i \in DOMAIN req[r].calls :
        req[r].calls[i].op = "ProcessRequestHeaders" /\ req[r].calls[i].it # NoInterruption

BodyOps == {"ReadRequestBodyFrom", "RequestBodyReader", "ProcessRequestBody"}

\* C4: once ProcessRequestHeaders has returned an Interruption, no body call
\* (ReadRequestBodyFrom, RequestBodyReader, ProcessRequestBody) is made on the
\* Transaction and the engine has received no byte of the body.
C4_HeaderShortCircuit ==
    \A r \in Requests :
        HeaderInterrupted(r) =>
            /\ \A i \in DOMAIN req[r].calls : req[r].calls[i].op \notin BodyOps
            /\ req[r].buf = <<>>
            /\ req[r].Body.pos = 0

\* a request with a body, interrupted in the header phase, at its end
C4_Witness ==
    \E r \in Requests :
        Done(r) /\ HeaderInterrupted(r) /\ req[r].Body.kind = "stream" /\ Len(req[r].orig) > 0

\* a phase yielded an Interruption: the call returned one, and no error
YieldedAt(r) ==
    { i \in DOMAIN req[r].calls :
        /\ req[r].calls[i].it # NoInterruption
        /\ req[r].calls[i].err = Nil
        /\ ~req[r].calls[i].panic }
Interrupted(r) == YieldedAt(r) # {}
TheInterruption(r) == req[r].calls[CHOOSE i \in YieldedAt(r) : TRUE].it[1]

\* the deny answer: X-WAF-Blocked set, the interruption's own status for a
\* deny that carries one and 403 otherwise, and {code: 0, msg}
DenyResponse(i, msg) ==
    [status |-> IF i.Action = "deny" /\ i.Status # 0 THEN i.Status ELSE StatusForbidden,
     payload |-> << [code |-> 0, msg |-> msg] >>,
     blocked |-> TRUE]

C9_Blocked ==
    \A r \in Requests :
        Interrupted(r) =>
            /\ req[r].nexts = 0
            /\ req[r].pc # "next"
            /\ req[r].pc \in {"deferred", "done"} =>
                 \E msg \in {DefaultBlockMessage} \cup { a[1] : a \in BlockMessageArgs \ {<<>>} } :
                     req[r].resp = DenyResponse(TheInterruption(r), msg)

C9_Answer ==
    \A r \in Requests :
        Interrupted(r) /\ req[r].pc = "respond" /\ req'[r].pc # "respond" =>
            req'[r].resp = DenyResponse(TheInterruption(r), wafBlockMessage)

\* C9: when a phase yields an Interruption, the response has X-WAF-Blocked:
\* true, the translator's status with default 403 and the payload {code: 0,
\* msg: the block message of that moment}, and the downstream handler is never
\* invoked for the request.
C9_InterruptionAnswer == [](C9_Blocked) /\ [][C9_Answer]_vars

\* a request denied with the engine's own status and a custom block message
C9_Witness ==
    \E r \in Requests :
        /\ Done(r) /\ Interrupted(r)
        /\ req[r].resp = DenyResponse([Action |-> "deny", Status |-> 429], "Blocked by policy")

\* the request never came near the engine and was answered 500 {code, msg}
Refused(r) ==
    /\ Done(r)
    /\ ~req[r].hasTx /\ req[r].calls = <<>> /\ req[r].nexts = 0
    /\ req[r].resp.status = StatusInternalServerError
    /\ Len(req[r].resp.payload) = 1
    /\ ~req[r].resp.blocked

PastPreconditions(r) == req[r].pc \notin {"start", "checkInstance"}

\* C5: a request whose precondition check runs before the initialization has
\* completed successfully (never called, in progress, ended with the engine's
\* error, aborted by a missing file) is answered 500 and gets no Transaction:
\* no call is made on the engine for it.
C5_NoTransactionBeforeInit ==
    \A r \in Requests :
        /\ req[r].hasTx => HandlePublished /\ req[r].tx # NilWAF
        /\ req[r].calls # <<>> => req[r].hasTx
        /\ PastPreconditions(r) /\ ~req[r].published => Refused(r)

\* refused while the construction has succeeded in another thread and its
\* handle is not stored yet
C5_Witness ==
    \E r \in Requests, c \in Callers :
        /\ ini[c].pc = "storeWAF" /\ ini[c].waf # NilWAF
        /\ Refused(r) /\ req[r].resp = JSON(StatusInternalServerError, MsgNotInitialized)

C6_Once ==
    /\ Len(constructions) <= 1
    /\ \A c \in Callers :
         ini[c].pc \in {"returned", "panicked"} => Len(constructions) = 1 /\ wafOnce.done
    /\ globalWAF # NilWAF =>
         /\ Len(constructions) = 1
         /\ constructions[1].outcome = "ok"
         /\ globalWAF = WAFOf(constructions[1].cfg)
    /\ wafInitErr # Nil => Len(constructions) = 1 /\ constructions[1].outcome = "error"

C6_Frame ==
    /\ wafOnce.done => globalWAF' = globalWAF /\ wafInitErr' = wafInitErr
    /\ \A c \in Callers :
         ini[c].pc \in {"do", "lock"} /\ ini'[c].pc = "returned" =>
            /\ globalWAF' = globalWAF /\ wafInitErr' = wafInitErr
            /\ constructions' = constructions
    /\ constructions' # constructions =>
         \E c \in Callers :
            /\ ini[c].pc = "create"
            /\ constructions' = Append(constructions,
                 [caller |-> c, cfg |-> ini[c].cfg,
                  outcome |-> constructions'[Len(constructions')].outcome])

\* C6: however many calls of InitGlobalWAF / InitGlobalWAFWithCfg race or follow
\* each other, with whatever configurations, createWAFWithCfg runs once, on the
\* configuration of one call; the other calls run no construction and change
\* neither the handle nor the recorded error, and once the attempt is over
\* the handle never changes.
C6_InitExactlyOnce == [](C6_Once) /\ [][C6_Frame]_vars

\* one call stores its result while another, with another configuration,
\* waits for the mutex
C6_Witness ==
    \E c, d \in Callers :
        /\ ini[c].pc = "storeErr" /\ ini[d].pc = "lock"
        /\ ini[c].cfg # ini[d].cfg
        /\ Len(constructions) = 1

ConstructionFailed ==
    \E i \in DOMAIN constructions : constructions[i].outcome \in {"error", "panic"}

\* C7: once the construction attempt has failed (a missing rule file, or the
\* engine's rejection), no initialize call runs the construction again, and
\* every request is answered 500 without a Transaction.
C7_FailurePermanent ==
    ConstructionFailed =>
        /\ Len(constructions) = 1
        /\ \A c \in Callers : ini[c].pc # "create"
        /\ globalWAF = NilWAF
        /\ \A r \in Requests :
             /\ ~req[r].hasTx /\ req[r].calls = <<>> /\ req[r].nexts = 0
             /\ PastPreconditions(r) => Refused(r)

\* after the failure another call has gone through Once.Do and returned, and
\* a request that came after the failure was refused
C7_Witness ==
    /\ ConstructionFailed
    /\ \E c \in Callers : c # constructions[1].caller /\ ini[c].pc = "returned"
    /\ \E r \in Requests : Refused(r) /\ req[r].failureAtStart # "none"

\* C8 as stated: after a failed initialization, whichever the cause (missing
\* rule file, engine's rejection), a request is answered 500 "WAF
\* initialization failed"; "WAF instance not initialized" is the answer when
\* the handle is nil without a failed initialization.
C8_FailedInitMessage ==
    \A r \in Requests :
        Done(r) =>
            /\ req[r].failureAtStart \in {"failed", "aborted"} =>
                 req[r].resp = JSON(StatusInternalServerError, MsgInitFailed)
            /\ req[r].resp = JSON(StatusInternalServerError, MsgNotInitialized) =>
                 req[r].failureAtStart = "none"

\* C8 amended: a request is answered 500 "WAF initialization failed" exactly
\* when the engine's rejection of the configuration is recorded as the request
\* is checked; when the initialization was aborted by a missing rule file
\* (createWAFWithCfg panics and records no error) the request is answered 500
\* "WAF instance not initialized", the answer for a nil handle with no
\* recorded error.
C8_DiagnosticByCause ==
    \A r \in Requests :
        Done(r) =>
            /\ req[r].failureAtStart = "failed" <=>
                 req[r].resp = JSON(StatusInternalServerError, MsgInitFailed)
            /\ req[r].failureAtStart = "aborted" =>
                 req[r].resp = JSON(StatusInternalServerError, MsgNotInitialized)
            /\ req[r].resp = JSON(StatusInternalServerError, MsgNotInitialized) =>
                 ~req[r].hasTx /\ ~req[r].published

C8_Witness ==
    \E r \in Requests :
        /\ Done(r) /\ req[r].failureAtStart = "aborted"
        /\ req[r].resp = JSON(StatusInternalServerError, MsgNotInitialized)

\* C10: the translator gives every interruption one status: its own status for
\* a deny with a nonzero status, 403 for a deny with status zero whatever the
\* default, and the default for every other action whatever its status.
C10_StatusMapping ==
    tr.done =>
        /\ tr.it.Action = "deny" /\ tr.it.Status # 0 => tr.status = tr.it.Status
        /\ tr.it.Action = "deny" /\ tr.it.Status = 0 => tr.status = StatusForbidden
        /\ tr.it.Action # "deny" => tr.status = tr.default

\* a deny without status, translated under a default that is not 403
C10_Witness ==
    /\ tr.done /\ tr.it.Action = "deny" /\ tr.it.Status = 0
    /\ tr.default # StatusForbidden /\ tr.status = StatusForbidden

\* the Transaction reported the rule engine off
RuleEngineOff(r) ==
    \E i \in DOMAIN req[r].calls :
        /\ req[r].calls[i].op = "IsRuleEngineOff"
        /\ req[r].calls[i].val /\ ~req[r].calls[i].panic

\* C11: when the Transaction reports IsRuleEngineOff = true, no call of an
\* inspection phase is ever made on it, the middleware writes no response of
\* its own, and the request goes to the downstream handler: it is about to be
\* passed on, or has been passed on exactly once.
C11_EngineOffBypass ==
    \A r \in Requests :
        RuleEngineOff(r) =>
            /\ \A i \in DOMAIN req[r].calls : req[r].calls[i].op \notin PhaseOps
            /\ req[r].it = NoInterruption /\ req[r].err = Nil
            /\ req[r].resp = NoResponse
            /\ req[r].pc \in {"next", "deferred", "done"}
            /\ req[r].pc \in {"deferred", "done"} => req[r].nexts = 1

\* a request with a body and headers that bypassed the engine and is over
C11_Witness ==
    \E r \in Requests :
        /\ Done(r) /\ RuleEngineOff(r) /\ req[r].nexts = 1
        /\ Len(req[r].orig) > 0 /\ req[r].Header # <<>>
        /\ Ops(r) = <<"IsRuleEngineOff", "ProcessLogging", "Close">>

\* the calls by which the body is read into the engine and evaluated
IngestOps == {"ReadRequestBodyFrom", "ProcessRequestBody"}

\* ReadRequestBodyFrom or ProcessRequestBody returned an error
EngineErrorAt(r) ==
    { i \in DOMAIN req[r].calls :
        /\ req[r].calls[i].op \in IngestOps
        /\ req[r].calls[i].err # Nil /\ ~req[r].calls[i].panic }
EngineError(r) == EngineErrorAt(r) # {}

C12_Answered ==
    \A r \in Requests :
        EngineError(r) =>
            /\ req[r].nexts = 0 /\ req[r].pc # "next"
            /\ \A i \in EngineErrorAt(r), j \in DOMAIN req[r].calls :
                 j > i => req[r].calls[j].op \in {"ProcessLogging", "Close"}
            /\ req[r].pc \in {"deferred", "done"} =>
                 req[r].resp = JSON(StatusInternalServerError, MsgProcessingFailed)
            /\ Done(r) => ReleasedOnce(r)

C12_Scoped ==
    \A r \in Requests :
        EngineError(r)' /\ req'[r] # req[r] =>
            /\ UNCHANGED Globals
            /\ \A q \in Requests \ {r} : req'[q] = req[q]

\* C12: when ReadRequestBodyFrom or ProcessRequestBody returns an error, no
\* further phase call is made, the request is answered 500 with the payload
\* {code: 0, msg: "WAF request processing failed"}, the downstream handler is
\* never invoked for it, its Transaction is released exactly once, and the
\* steps of the failing request change nothing but that request: not the
\* handle, the recorded error, the block message, nor any other request.
C12_EngineIOError == [](C12_Answered) /\ [][C12_Scoped]_vars

\* a request failed while reading its body; another, whose Transaction was
\* created after it, was passed to the downstream handler
C12_Witness ==
    \E r, q \in Requests :
        /\ Done(r) /\ EngineError(r) /\ Called(r, "ReadRequestBodyFrom")
        /\ ~Called(r, "ProcessRequestBody") /\ ReleasedOnce(r)
        /\ Done(q) /\ req[q].id > req[r].id /\ req[q].nexts = 1 /\ ~req[q].recovered

\* the conversion of the native request returned an error
ConversionFailed(r) == req[r].err = ErrConvert

C13_Answered ==
    \A r \in Requests :
        ConversionFailed(r) =>
            /\ Done(r)
            /\ req[r].resp = JSON(StatusInternalServerError, MsgConvertFailed)
            /\ ~req[r].hasTx /\ req[r].id = 0
            /\ req[r].calls = <<>>
            /\ req[r].nexts = 0

C13_Scoped ==
    \A r \in Requests :
        ConversionFailed(r)' /\ req'[r] # req[r] =>
            /\ UNCHANGED Globals
            /\ \A q \in Requests \ {r} : req'[q] = req[q]

\* C13: when the conversion of the native request fails, the request ends
\* there, answered 500 with the payload {code: 0, msg: "Failed to convert
\* request"}; no Transaction is created for it and no call is made on the
\* engine, the downstream handler is not invoked, and the failing step changes
\* nothing but that request, so that other requests are served as before.
C13_ConversionError == [](C13_Answered) /\ [][C13_Scoped]_vars

\* a request failed in conversion; the other one got a Transaction and was
\* inspected, body included, and passed on
C13_Witness ==
    \E r, q \in Requests :
        /\ ConversionFailed(r) /\ Done(r)
        /\ Done(q) /\ req[q].id = 1 /\ req[q].nexts = 1
        /\ Called(q, "RequestBodyReader") /\ ~req[q].recovered

\* the argument lists that make InitWAFBlockMessage set the message
SettingArgs == { a \in BlockMessageArgs : Len(a) > 0 /\ a[1] # "" }

\* a call with a non-empty first argument can be made in every state, and
\* leaves that argument as the block message
C14_Settable ==
    \A a \in SettingArgs : ENABLED (InitWAFBlockMessage /\ wafBlockMessage' = a[1])

\* a step that changes the block message sets it to the non-empty first
\* argument of a call, and changes nothing else
C14_Step ==
    wafBlockMessage' # wafBlockMessage =>
        /\ \E a \in SettingArgs : wafBlockMessage' = a[1]
        /\ UNCHANGED <<globalWAF, wafInitErr, wafOnce, ini, constructions, req, tr>>

\* C14: the block message starts as the built-in default; InitWAFBlockMessage
\* replaces it with its first argument when that is a non-empty string, and a
\* call with no argument or an empty first argument changes nothing; the
\* setter never changes the handle, the recorded error, the Once or a request,
\* and no step of the initialization or of a request changes the block message.
C14_BlockMessageSetter ==
    /\ wafBlockMessage = DefaultBlockMessage
    /\ [](C14_Settable)
    /\ [][C14_Step]_vars

\* the message was replaced after the handle was built, and the handle and
\* the recorded error are as the construction left them
C14_Witness ==
    /\ wafBlockMessage = "Blocked by policy"
    /\ Len(constructions) = 1 /\ constructions[1].outcome = "ok"
    /\ globalWAF = WAFOf(constructions[1].cfg) /\ wafInitErr = Nil /\ wafOnce.done

\* the place of a call in the order of lines 181, 226-260 and 177-178
Rank(op) ==
    CASE op = "IsRuleEngineOff" -> 0
      [] op = "ProcessConnection" -> 1
      [] op = "ProcessURI" -> 2
      [] op \in {"AddRequestHeader", "SetServerName"} -> 3
      [] op = "ProcessRequestHeaders" -> 4
      [] op = "IsRequestBodyAccessible" -> 5
      [] op = "ReadRequestBodyFrom" -> 6
      [] op = "RequestBodyReader" -> 7
      [] op = "ProcessRequestBody" -> 8
      [] op = "ProcessLogging" -> 9
      [] op = "Close" -> 10

\* the phases a call of the given place cannot be made without
Before(k) ==
    (IF k > 1 THEN {"ProcessConnection"} ELSE {})
      \cup (IF k > 2 THEN {"ProcessURI"} ELSE {})
      \cup (IF k > 4 THEN {"ProcessRequestHeaders"} ELSE {})
      \cup (IF k = 7 THEN {"ReadRequestBodyFrom"} ELSE {})

\* C15: the calls processRequest makes on a Transaction come in the order
\* ProcessConnection, ProcessURI, the AddRequestHeader/SetServerName calls,
\* ProcessRequestHeaders, then body ingestion (ReadRequestBodyFrom and
\* RequestBodyReader) if entered, then ProcessRequestBody: none is made before
\* the phases ahead of it were, none is repeated or follows a later one, and
\* after a call that returned an Interruption no phase call is made.
C15_PhaseOrder ==
    \A r \in Requests :
        LET calls == req[r].calls IN
        \A j \in DOMAIN calls :
            calls[j].op \in PhaseOps =>
                /\ \A i \in 1..(j - 1) :
                     /\ Rank(calls[i].op) <= Rank(calls[j].op)
                     /\ Rank(calls[i].op) = Rank(calls[j].op) => Rank(calls[j].op) = 3
                     /\ calls[i].it = NoInterruption
                /\ \A op \in Before(Rank(calls[j].op)) :
                     \E i \in 1..(j - 1) : calls[i].op = op

\* a request that went through every phase, headers and body included
C15_Witness ==
    \E r \in Requests :
        /\ Done(r) /\ req[r].Header # <<>>
        /\ \A op \in PhaseOps : Called(r, op)
        /\ Count(r, "AddRequestHeader") >= 4

\* the calls of IsRequestBodyAccessible that returned
AskedAt(r) ==
    { k \in DOMAIN req[r].calls :
        req[r].calls[k].op = "IsRequestBodyAccessible" /\ ~req[r].calls[k].panic }

\* the condition of line 248: the answer of the call, and the body stream
\* neither nil nor http.NoBody
BodyCondition(r, k) == req[r].calls[k].val /\ req[r].Body.kind = "stream"

\* C16 as stated: a call of the body phase (ReadRequestBodyFrom,
\* RequestBodyReader, ProcessRequestBody) is made only for a request whose
\* Transaction reported the body accessible and whose body stream is neither
\* nil nor the empty sentinel.
C16_BodyPhaseGuarded ==
    \A r \in Requests :
        \A j \in DOMAIN req[r].calls :
            req[r].calls[j].op \in BodyOps =>
                \E k \in AskedAt(r) : k < j /\ BodyCondition(r, k)

IngestionOps == {"ReadRequestBodyFrom", "RequestBodyReader"}

\* C16 amended: body ingestion (ReadRequestBodyFrom, then RequestBodyReader)
\* is entered only if the Transaction reports the body accessible and the body
\* stream is neither nil nor the empty sentinel, and then it is the next call;
\* when the condition is false no ingestion call is made and no byte of the
\* body is read, and the next call on the Transaction is ProcessRequestBody,
\* which is made whether or not ingestion was entered.
C16_IngestionGuarded ==
    \A r \in Requests :
        LET calls == req[r].calls IN
        /\ \A j \in DOMAIN calls :
             calls[j].op \in IngestionOps =>
                \E k \in AskedAt(r) : k < j /\ BodyCondition(r, k)
        /\ \A k \in AskedAt(r) :
             IF BodyCondition(r, k)
             THEN IF Len(calls) = k THEN req[r].pc = "readBody"
                  ELSE calls[k + 1].op = "ReadRequestBodyFrom"
             ELSE /\ \A j \in DOMAIN calls : calls[j].op \notin IngestionOps
                  /\ req[r].buf = <<>> /\ req[r].Body.pos = 0
                  /\ IF Len(calls) = k THEN req[r].pc = "processBody"
                     ELSE calls[k + 1].op = "ProcessRequestBody"

\* the body reported accessible, the stream the empty sentinel: nothing
\* ingested, ProcessRequestBody called, the request interrupted by it
C16_Witness ==
    \E r \in Requests :
        /\ Done(r) /\ req[r].Body.kind = "NoBody"
        /\ \E k \in AskedAt(r) : req[r].calls[k].val
        /\ ~Called(r, "ReadRequestBodyFrom")
        /\ \E j \in DOMAIN req[r].calls :
             req[r].calls[j].op = "ProcessRequestBody" /\ req[r].calls[j].it # NoInterruption

\* the ingestion calls that returned an Interruption
IngestInterruptedAt(r) ==
    { i \in DOMAIN req[r].calls :
        /\ req[r].calls[i].op = "ReadRequestBodyFrom"
        /\ req[r].calls[i].it # NoInterruption /\ ~req[r].calls[i].panic }

\* C17: once ReadRequestBodyFrom has returned an Interruption, the only calls
\* made on the Transaction are those of its release: ProcessRequestBody and
\* RequestBodyReader are not invoked, the request's body stream is not
\* replaced by a replay stream, and the downstream handler is never invoked;
\* when the call yielded the Interruption (no error with it), that
\* Interruption is the result of the pipeline and the request is answered
\* with the deny response.
C17_IngestionInterrupt ==
    \A r \in Requests :
        \A i \in IngestInterruptedAt(r) :
            /\ \A j \in DOMAIN req[r].calls :
                 j > i => req[r].calls[j].op \in {"ProcessLogging", "Close"}
            /\ ~Called(r, "ProcessRequestBody") /\ ~Called(r, "RequestBodyReader")
            /\ req[r].Body.pre = <<>>
            /\ req[r].nexts = 0 /\ req[r].pc \in {"respond", "deferred", "done"}
            /\ req[r].calls[i].err = Nil =>
                 /\ req[r].it = req[r].calls[i].it /\ req[r].err = Nil
                 /\ req[r].pc \in {"deferred", "done"} =>
                      /\ req[r].resp.blocked
                      /\ req[r].resp.status =
                            obtainStatusCodeFromInterruptionOrDefault(
                                req[r].calls[i].it[1], StatusForbidden)

\* the engine read part of a body, interrupted, and the request was denied
C17_Witness ==
    \E r \in Requests :
        /\ Done(r) /\ req[r].resp.blocked
        /\ \E i \in IngestInterruptedAt(r) : req[r].calls[i].err = Nil
        /\ 0 < req[r].Body.pos /\ req[r].Body.pos < Len(req[r].Body.data)

\* the values passed to the engine under a key, in the order of the calls
FedValues(r, k) ==
    LET OfKey(c) == c.op = "AddRequestHeader" /\ c.arg[1] = k
        fed == SelectSeq(req[r].calls, OfKey)
    IN  [i \in DOMAIN fed |-> fed[i].arg[2]]

\* the values the request holds under a key
HeaderValues(r, k) ==
    IF \E i \in DOMAIN req[r].Header : req[r].Header[i][1] = k
    THEN req[r].Header[CHOOSE i \in DOMAIN req[r].Header : req[r].Header[i][1] = k][2]
    ELSE <<>>

\* the synthesized headers: the effective host, the first transfer encoding
Synthesized(r, k) ==
    (IF k = "Host" /\ req[r].Host # "" THEN <<req[r].Host>> ELSE <<>>)
      \o (IF k = "Transfer-Encoding" /\ req[r].TransferEncoding # <<>>
          THEN <<req[r].TransferEncoding[1]>> ELSE <<>>)

FedKeys(r) ==
    { req[r].calls[i].arg[1] :
        i \in { j \in DOMAIN req[r].calls : req[r].calls[j].op = "AddRequestHeader" } }

\* the header pairs of the request in the order they arrived in: key after
\* key, the values of each key in turn
RECURSIVE Pairs(_)
Pairs(h) ==
    IF h = <<>> THEN <<>>
    ELSE [j \in 1..Len(Head(h)[2]) |-> <<Head(h)[1], Head(h)[2][j]>>] \o Pairs(Tail(h))

\* the pairs passed to the engine, in the order of the calls
FedPairs(r) ==
    LET IsHeader(c) == c.op = "AddRequestHeader"
        fed == SelectSeq(req[r].calls, IsHeader)
    IN  [i \in DOMAIN fed |-> fed[i].arg]

\* C18 as stated: when ProcessRequestHeaders is invoked, the engine has been
\* passed every header pair of the request exactly once and in the original
\* order, then the synthesized Host header if the effective host is non-empty
\* (and the transfer encoding if there is one).
C18_FedInOriginalOrder ==
    \A r \in Requests :
        Called(r, "ProcessRequestHeaders") =>
            FedPairs(r) = Pairs(req[r].Header)
                            \o (IF req[r].Host # "" THEN << <<"Host", req[r].Host>> >> ELSE <<>>)
                            \o (IF req[r].TransferEncoding # <<>>
                                THEN << <<"Transfer-Encoding", req[r].TransferEncoding[1]>> >>
                                ELSE <<>>)

\* C18 amended: when ProcessRequestHeaders is invoked for a request, the
\* engine has been passed, under every key, exactly the values the request holds under
\* that key, each once and in their order (duplicates included), followed by
\* the synthesized value if any: the effective host under Host whenever it is
\* non-empty, with one SetServerName call, and none when it is empty; nothing
\* is passed under any other key, and no header call comes after
\* ProcessRequestHeaders.  The order between different keys is that of the
\* range over the header map and is not fixed.
C18_HeaderFeeding ==
    \A r \in Requests :
        \A p \in DOMAIN req[r].calls :
            req[r].calls[p].op = "ProcessRequestHeaders" =>
                /\ \A k \in FedKeys(r) \cup {"Host", "Transfer-Encoding"}
                              \cup { req[r].Header[i][1] : i \in DOMAIN req[r].Header } :
                     FedValues(r, k) = HeaderValues(r, k) \o Synthesized(r, k)
                /\ Count(r, "SetServerName") = (IF req[r].Host # "" THEN 1 ELSE 0)
                /\ \A j \in DOMAIN req[r].calls :
                     req[r].calls[j].op \in {"AddRequestHeader", "SetServerName"} =>
                        /\ j < p /\ ~req[r].calls[j].panic
                        /\ req[r].calls[j].op = "SetServerName" =>
                             req[r].calls[j].arg = <<req[r].Host>>

\* a request with two header keys, one of two values, a host taken from the
\* framework and a transfer encoding, all fed, the second key first
C18_Witness ==
    \E r \in Requests :
        /\ Done(r) /\ Called(r, "ProcessRequestHeaders")
        /\ req[r].Header = << <<"Accept", <<"text/html">> >>, <<"Cookie", <<"k=v">> >> >>
        /\ req[r].Host = "fiber.local" /\ req[r].TransferEncoding # <<>>
        /\ req[r].calls[4].arg = <<"Cookie", "k=v">>
        /\ req[r].calls[5].arg = <<"Accept", "text/html">>

\* the requests that make their calls on the engine's Transaction t
Users(t) == { r \in Requests : req[r].hasTx /\ req[r].id = t }

\* the Transaction of the request is closed: Close was its last call
Closed(r) ==
    /\ req[r].calls # <<>>
    /\ req[r].calls[Len(req[r].calls)].op = "Close"
    /\ Count(r, "Close") = 1

C19_Owned ==
    /\ \A t \in 1..NumRequests : Cardinality(Users(t)) <= 1
    /\ \A r \in Requests :
         /\ req[r].hasTx <=> req[r].id # 0
         /\ req[r].calls # <<>> => req[r].hasTx
         /\ Called(r, "Close") => Closed(r) /\ req[r].pc = "done"
         /\ Done(r) /\ req[r].hasTx => Closed(r)

C19_OneEach ==
    \A r \in Requests :
        /\ req[r].hasTx => req'[r].hasTx /\ req'[r].id = req[r].id
        /\ req'[r].calls # req[r].calls =>
             /\ req[r].hasTx
             /\ SubSeq(req'[r].calls, 1, Len(req[r].calls)) = req[r].calls
             /\ \A q \in Requests \ {r} : req'[q] = req[q]

\* C19: under any interleaving of the steps of concurrent requests, no two
\* requests make their calls on the same Transaction, a request makes calls
\* only on the Transaction it created, creates one at most and keeps it to its
\* end, and that Transaction is closed, by its last call, before the request's
\* invocation of the middleware returns.
C19_TransactionOwnership == [](C19_Owned) /\ [][C19_OneEach]_vars

\* two Transactions in use at once; the one created later is already closed
\* while the one created first is still in its body phase
C19_Witness ==
    \E r, q \in Requests :
        /\ req[r].id = 1 /\ req[r].pc = "processBody" /\ Called(r, "RequestBodyReader")
        /\ req[q].id = 2 /\ Done(q) /\ Closed(q)

\* every phase the request executed completed, the last one included, with
\* no Interruption, no error and no fault
CleanRun(r) ==
    /\ Called(r, "ProcessRequestBody")
    /\ \A i \in DOMAIN req[r].calls :
         req[r].calls[i].op \in PhaseOps =>
            /\ req[r].calls[i].it = NoInterruption
            /\ req[r].calls[i].err = Nil
            /\ ~req[r].calls[i].panic

\* the middleware answered the request itself: a deny, or a 500
Answered(r) == req[r].resp.blocked \/ req[r].resp.status = StatusInternalServerError

\* C20: the downstream handler is invoked at most once per request; it is
\* invoked only if the handle was stored when the request was checked, the
\* conversion succeeded, and either the Transaction reported the rule engine
\* off or every phase ran to its end with no Interruption and no error; a
\* request for which all that holds has had it invoked when it ends; and it is
\* never invoked for a request the middleware answered with a deny or a 500.
C20_DownstreamExactlyWhen ==
    \A r \in Requests :
        LET passes == /\ req[r].published /\ req[r].tx # NilWAF
                      /\ ~ConversionFailed(r) /\ PastPreconditions(r)
                      /\ RuleEngineOff(r) \/ CleanRun(r)
        IN  /\ req[r].nexts <= 1
            /\ req[r].nexts = 1 => passes
            /\ Done(r) /\ passes => req[r].nexts = 1
            /\ passes => req[r].pc \in {"respond", "next", "deferred", "done"}
            /\ req[r].pc = "next" => passes /\ req[r].nexts = 0
            /\ Answered(r) => req[r].nexts = 0 /\ req[r].pc # "next"

\* a request with a body went through every phase and was passed on, once
C20_Witness ==
    \E r \in Requests :
        /\ Done(r) /\ req[r].nexts = 1 /\ CleanRun(r) /\ ~RuleEngineOff(r)
        /\ Called(r, "ReadRequestBodyFrom") /\ req[r].resp = NoResponse

ReleaseOps == {"ProcessLogging", "Close"}

C21_Last ==
    \A r \in Requests :
        LET calls == req[r].calls IN
        /\ Done(r) /\ req[r].hasTx => Called(r, "ProcessLogging") /\ Called(r, "Close")
        /\ \A i, j \in DOMAIN calls :
             i < j =>
                /\ calls[i].op # "Close"
                /\ calls[i].op = "ProcessLogging" => calls[j].op = "Close"
        /\ (\E i \in DOMAIN calls : calls[i].op \in ReleaseOps) => Done(r)

C21_AfterDownstream ==
    \A r \in Requests :
        /\ req'[r].calls # req[r].calls
              /\ (\E i \in DOMAIN req'[r].calls : req'[r].calls[i].op \in ReleaseOps) =>
                 /\ req[r].pc = "deferred"
                 /\ req'[r].nexts = req[r].nexts
        /\ req'[r].nexts # req[r].nexts =>
                 /\ \A i \in DOMAIN req'[r].calls : req'[r].calls[i].op \notin ReleaseOps
                 /\ req'[r].calls = req[r].calls
                 /\ req'[r].pc = "deferred"
        /\ Called(r, "Close") => req'[r] = req[r]

\* C21: for every request with a Transaction, ProcessLogging is called, then
\* Close, as the last two calls on the Transaction: every other call comes
\* before them and none after Close; they are made by the deferred function,
\* after the downstream handler (when it is invoked) has returned or panicked,
\* and the downstream handler is never invoked once they are made.
C21_ReleaseLast == [](C21_Last) /\ [][C21_AfterDownstream]_vars

\* the downstream handler was invoked and panicked after a full inspection;
\* the Transaction was logged and closed after it
C21_Witness ==
    \E r \in Requests :
        /\ Done(r) /\ req[r].nexts = 1 /\ req[r].recovered /\ CleanRun(r)
        /\ Called(r, "RequestBodyReader")
        /\ req[r].calls[Len(req[r].calls) - 1].op = "ProcessLogging"
        /\ req[r].calls[Len(req[r].calls)].op = "Close"

====
